---- MODULE Spec2Model ----
(***************************************************************************)
(* fetchSSE (src/src/common/components/WordBookViewer.tsx, lines 494-524): *)
(* one invocation of the streaming response consumer, from the transport   *)
(* call to the settlement of the promise the async function returns.       *)
(*                                                                         *)
(* Each action is one run-to-completion segment of the async function: the *)
(* code between two awaits.  The environment (transport, body stream,      *)
(* body parse, the onMessage callback) supplies the outcome of each await. *)
(*                                                                         *)
(* Environment assumptions, stated once:                                   *)
(*  - the failures drawn are those of the error taxonomy: the transport    *)
(*    call rejects, the error body is not JSON, a read rejects, the        *)
(*    decoder/onMessage throws while a chunk is processed;                 *)
(*  - resp.body is a stream, as line 510 asserts (resp.body!);             *)
(*  - onStatusCode and onError return normally;                            *)
(*  - a read never yields an empty chunk;                                  *)
(*  - bytes are UTF-8 code units; text is a sequence of code points.       *)
(***************************************************************************)
EXTENDS Integers, Sequences, FiniteSets, TLC

\* ------------------------------------------------------------- bounds
\* The most blocks (events, comments, retry lines) a body stream is built of.
MaxBlocks == 2

\* ---------------------------------------------------------- constants
\* The success status the code compares with (resp.status !== 200).
StatusOK == 200

\* U+FFFD and the characters the event-stream grammar gives a meaning to.
Chr == [repl |-> 65533, lf |-> 10, colon |-> 58, space |-> 32, zero |-> 48, nine |-> 57]

\* --------------------------------------------------- TextDecoder.decode
\* new TextDecoder().decode(value): a fresh, non-streaming UTF-8 decoder
\* for every chunk.  The WHATWG UTF-8 decode loop: need = bytes still
\* expected, cp = code point so far, lo..hi = the range the next
\* continuation byte must lie in.  A malformed or truncated sequence yields
\* U+FFFD; end of input inside a sequence yields one U+FFFD (no state is
\* kept for the next chunk, there being no {stream: true}).
RECURSIVE Utf8Step(_, _, _, _, _, _, _)
Utf8Step(bytes, i, need, cp, lo, hi, out) ==
    IF i > Len(bytes)
    THEN IF need # 0 THEN Append(out, Chr.repl) ELSE out
    ELSE LET b == bytes[i] IN
         IF need = 0
         THEN IF b <= 127 THEN Utf8Step(bytes, i + 1, 0, 0, 128, 191, Append(out, b))
              ELSE IF b \in 194..223 THEN Utf8Step(bytes, i + 1, 1, b - 192, 128, 191, out)
              ELSE IF b \in 224..239
                   THEN Utf8Step(bytes, i + 1, 2, b - 224,
                                 IF b = 224 THEN 160 ELSE 128,
                                 IF b = 237 THEN 159 ELSE 191, out)
              ELSE IF b \in 240..244
                   THEN Utf8Step(bytes, i + 1, 3, b - 240,
                                 IF b = 240 THEN 144 ELSE 128,
                                 IF b = 244 THEN 143 ELSE 191, out)
              ELSE Utf8Step(bytes, i + 1, 0, 0, 128, 191, Append(out, Chr.repl))
         ELSE IF b \notin lo..hi
              THEN \* the byte is put back and decoded again as a first byte
                   Utf8Step(bytes, i, 0, 0, 128, 191, Append(out, Chr.repl))
              ELSE IF need = 1
                   THEN Utf8Step(bytes, i + 1, 0, 0, 128, 191,
                                 Append(out, cp * 64 + (b - 128)))
                   ELSE Utf8Step(bytes, i + 1, need - 1, cp * 64 + (b - 128), 128, 191, out)

TextDecode(value) == Utf8Step(value, 1, 0, 0, 128, 191, <<>>)

\* ------------------------------------------------- eventsource-parser
\* The grammar decoder behind createParser/feed.  Its state is the text of
\* the line not yet ended (buffer) and the data of the event not yet ended.
\* An item is what the decoder hands to the callback given to createParser.
FieldData == <<100, 97, 116, 97>>
FieldRetry == <<114, 101, 116, 114, 121>>
Undefined == <<-1>>

NewParser == [buffer |-> <<>>, data |-> <<>>]

EventItem(data) == [type |-> "event", data |-> data]
RetryItem == [type |-> "reconnect-interval", data |-> Undefined]

\* Index of the first ':' of a line, 0 when there is none.
ColonAt(line) ==
    IF \E i \in 1..Len(line) : line[i] = Chr.colon
    THEN CHOOSE i \in 1..Len(line) :
            /\ line[i] = Chr.colon
            /\ \A j \in 1..(i - 1) : line[j] # Chr.colon
    ELSE 0

FieldOf(line) ==
    IF ColonAt(line) = 0 THEN line ELSE SubSeq(line, 1, ColonAt(line) - 1)

\* The value after the colon, one leading space dropped.
ValueOf(line) ==
    LET c == ColonAt(line) IN
    IF c = 0 THEN <<>>
    ELSE IF c < Len(line) /\ line[c + 1] = Chr.space
         THEN SubSeq(line, c + 2, Len(line))
         ELSE SubSeq(line, c + 1, Len(line))

\* parseInt(value, 10) is a number: the value starts with a digit.
IsNumber(value) ==
    /\ value # <<>>
    /\ value[1] \in Chr.zero..Chr.nine

\* One complete line: [data |-> the event data after it, items |-> what it
\* hands to the callback].
ParseLine(line, data) ==
    IF line = <<>>
    THEN IF Len(data) > 0
         THEN [data |-> <<>>, items |-> <<EventItem(SubSeq(data, 1, Len(data) - 1))>>]
         ELSE [data |-> data, items |-> <<>>]
    ELSE IF FieldOf(line) = FieldData
         THEN [data |-> data \o ValueOf(line) \o <<Chr.lf>>, items |-> <<>>]
    ELSE IF FieldOf(line) = FieldRetry /\ IsNumber(ValueOf(line))
         THEN [data |-> data, items |-> <<RetryItem>>]
    ELSE [data |-> data, items |-> <<>>]

RECURSIVE FeedFrom(_, _, _, _, _)
FeedFrom(text, i, buffer, data, items) ==
    IF i > Len(text)
    THEN [parser |-> [buffer |-> buffer, data |-> data], items |-> items]
    ELSE IF text[i] = Chr.lf
         THEN LET r == ParseLine(buffer, data) IN
              FeedFrom(text, i + 1, <<>>, r.data, items \o r.items)
         ELSE FeedFrom(text, i + 1, Append(buffer, text[i]), data, items)

\* parser.feed(str): the parser after the text, and the items it completed.
Feed(p, text) == FeedFrom(text, 1, p.buffer, p.data, <<>>)

\* ------------------------------------------------------ response bodies
\* The bodies a response is drawn with.  A stream body is a run of blocks
\* of the event-stream grammar, the last of which may be a line that the
\* stream ends in the middle of:
\*   ascii    data: ab LF LF          multi    data: e-acute LF LF
\*   comment  :c LF                   retry    retry: 5 LF
\*   partial  data: a      (no line end; last block only)
\* A json body is the document {"e":n}.
BlockKinds == {"ascii", "multi", "comment", "retry"}

PayloadBytes(k) ==
    CASE k = "ascii" -> <<97, 98>>
      [] k = "multi" -> <<195, 169>>
      [] OTHER -> <<>>

BlockBytes(k) ==
    CASE k \in {"ascii", "multi"} ->
            FieldData \o <<Chr.colon, Chr.space>> \o PayloadBytes(k) \o <<Chr.lf, Chr.lf>>
      [] k = "comment" -> <<Chr.colon, 99, Chr.lf>>
      [] k = "retry" -> FieldRetry \o <<Chr.colon, Chr.space, 53, Chr.lf>>
      [] k = "partial" -> FieldData \o <<Chr.colon, Chr.space, 97>>

JsonDocs == {1, 2}
JsonText(n) == <<123, 34, 101, 34, 58, Chr.zero + n, 125>>

RECURSIVE BlocksBytes(_)
BlocksBytes(blocks) ==
    IF blocks = <<>> THEN <<>>
    ELSE BlockBytes(Head(blocks)) \o BlocksBytes(Tail(blocks))

BlockSeqs ==
    {b \in UNION {[1..n -> BlockKinds \cup {"partial"}] : n \in 0..MaxBlocks} :
        \A i \in 1..(Len(b) - 1) : b[i] # "partial"}

Bodies ==
    [kind : {"stream"}, blocks : BlockSeqs, doc : {0}]
    \cup [kind : {"json"}, blocks : {<<>>}, doc : JsonDocs]

\* The bytes the body stream delivers, in order.
BodyBytes(body) ==
    IF body.kind = "stream" THEN BlocksBytes(body.blocks) ELSE JsonText(body.doc)

\* resp.json(): the parsed document, or a rejection when the text is none.
JsonParse(bytes) ==
    IF \E n \in JsonDocs : bytes = JsonText(n)
    THEN [ok |-> TRUE, value |-> [e |-> CHOOSE n \in JsonDocs : bytes = JsonText(n)]]
    ELSE [ok |-> FALSE, value |-> [e |-> 0]]

Statuses == {StatusOK, 201, 429}

\* resp before the transport call has resolved.
NoResp == [status |-> 0, body |-> [kind |-> "none", blocks |-> <<>>, doc |-> 0],
           bytes |-> <<>>]

\* ---------------------------------------------------------------- state
VARIABLES
    pc,               \* the await the invocation is suspended at, or "end"
    result,           \* the promise fetchSSE returned: pending, fulfilled, rejected
    error,            \* what it was rejected with
    hasOnStatusCode,  \* options.onStatusCode was supplied
    resp,             \* the response of the transport call: its status, its
                      \* body and the bytes the body stream holds
    pos,              \* bytes of the body the reader has delivered
    locked,           \* the body stream is locked to the reader
    acquired,         \* calls of getReader
    released,         \* calls of releaseLock
    stream,           \* the body stream: readable, closed (a read signalled
                      \* completion) or errored (a read rejected)
    parser,           \* the grammar decoder's state
    parsed,           \* the items the decoder handed to its callback, in order
    calls             \* the calls of onStatusCode, onMessage and onError, in order

vars == <<pc, result, error, hasOnStatusCode, resp, pos, locked, acquired,
          released, stream, parser, parsed, calls>>

Init ==
    /\ pc = "fetch"
    /\ result = "pending"
    /\ error = "none"
    /\ hasOnStatusCode \in BOOLEAN
    /\ resp = NoResp
    /\ pos = 0
    /\ locked = FALSE
    /\ acquired = 0
    /\ released = 0
    /\ stream = "readable"
    /\ parser = NewParser
    /\ parsed = <<>>
    /\ calls = <<>>

Call(cb, arg) == [cb |-> cb, arg |-> arg]

\* The promise settles; nothing runs after it.
Return ==
    /\ pc' = "end"
    /\ result' = "fulfilled"
    /\ error' = "none"

Throw(e) ==
    /\ pc' = "end"
    /\ result' = "rejected"
    /\ error' = e

\* finally { reader.releaseLock() }
ReleaseLock ==
    /\ locked' = FALSE
    /\ released' = released + 1

\* Mutant of StatusCall: the callback is given the success constant instead
\* of the status of the response.
StatusCallConstant(status) ==
    IF hasOnStatusCode THEN <<Call("onStatusCode", StatusOK)>> ELSE <<>>

\* onStatusCode?.(resp.status)
StatusCall(status) ==
    IF hasOnStatusCode THEN <<Call("onStatusCode", status)>> ELSE <<>>

\* Mutant of IsErrorStatus: only 4xx and 5xx take the error path.
IsErrorStatusFrom400(status) == status >= 400

\* resp.status !== 200
IsErrorStatus(status) == status # StatusOK

\* Mutant of OnParse: the type of the item is not looked at.
OnParseAnyType(event) == <<Call("onMessage", event.data)>>

\* The callback given to createParser: an item of type 'event' is forwarded.
OnParse(event) ==
    IF event.type = "event" THEN <<Call("onMessage", event.data)>> ELSE <<>>

RECURSIVE OnParseAll(_)
OnParseAll(items) ==
    IF items = <<>> THEN <<>>
    ELSE OnParse(Head(items)) \o OnParseAll(Tail(items))

\* Mutant of FetchReject: the rejection is caught and reported through
\* onError, and the invocation returns.
FetchRejectCaught ==
    /\ pc = "fetch"
    /\ calls' = Append(calls, Call("onError", [e |-> 0]))
    /\ Return
    /\ UNCHANGED <<hasOnStatusCode, resp, pos, locked, acquired, released,
                   stream, parser, parsed>>

\* await fetcher(input, fetchOptions) rejects: nothing of fetchSSE catches it.
FetchReject ==
    /\ pc = "fetch"
    /\ Throw("transport")
    /\ UNCHANGED <<hasOnStatusCode, resp, pos, locked, acquired, released,
                   stream, parser, parsed, calls>>

\* await fetcher(...) resolves; the code runs to its next await: the status
\* callback, then either resp.json() or getReader and the first read.
FetchResolve ==
    /\ pc = "fetch"
    /\ \E status \in Statuses, body \in Bodies :
        /\ resp' = [status |-> status, body |-> body, bytes |-> BodyBytes(body)]
        /\ calls' = calls \o StatusCall(status)
        /\ IF IsErrorStatus(status)
           THEN /\ pc' = "json"
                /\ UNCHANGED <<result, error, locked, acquired>>
           ELSE /\ acquired' = acquired + 1
                /\ locked' = TRUE
                /\ pc' = "read"
                /\ UNCHANGED <<result, error>>
    /\ UNCHANGED <<hasOnStatusCode, pos, released, stream, parser, parsed>>

\* Mutant of JsonResolve: the return after onError is missing, so the code
\* goes on to take a reader and read the body.
JsonResolveNoReturn ==
    /\ pc = "json"
    /\ JsonParse(resp.bytes).ok
    /\ calls' = Append(calls, Call("onError", JsonParse(resp.bytes).value))
    /\ acquired' = acquired + 1
    /\ locked' = TRUE
    /\ pc' = "read"
    /\ UNCHANGED <<result, error, hasOnStatusCode, resp, pos, released, stream,
                   parser, parsed>>

\* await resp.json() resolves: onError(parsed body); return.
JsonResolve ==
    /\ pc = "json"
    /\ JsonParse(resp.bytes).ok
    /\ calls' = Append(calls, Call("onError", JsonParse(resp.bytes).value))
    /\ Return
    /\ UNCHANGED <<hasOnStatusCode, resp, pos, locked, acquired, released,
                   stream, parser, parsed>>

\* await resp.json() rejects: the body is not JSON.
JsonReject ==
    /\ pc = "json"
    /\ ~JsonParse(resp.bytes).ok
    /\ Throw("json")
    /\ UNCHANGED <<hasOnStatusCode, resp, pos, locked, acquired, released,
                   stream, parser, parsed, calls>>

\* await reader.read() yields a chunk: decode it, feed the parser, which
\* calls back for every item it completes.  throwAt = 0: every callback
\* returns and the loop reads again.  throwAt = t: the onMessage call for
\* the t-th item throws out of feed and the finally block runs.
ReadChunk ==
    /\ pc = "read"
    /\ pos < Len(resp.bytes)
    /\ \E n \in 1..(Len(resp.bytes) - pos) :
        LET value == SubSeq(resp.bytes, pos + 1, pos + n)
            str == TextDecode(value)
            fed == Feed(parser, str)
        IN \E throwAt \in 0..Len(fed.items) :
            LET items == IF throwAt = 0 THEN fed.items
                         ELSE SubSeq(fed.items, 1, throwAt)
            IN /\ throwAt # 0 => OnParse(fed.items[throwAt]) # <<>>
               /\ pos' = pos + n
               /\ parsed' = parsed \o items
               /\ calls' = calls \o OnParseAll(items)
               /\ IF throwAt = 0
                  THEN /\ parser' = fed.parser
                       /\ UNCHANGED <<pc, result, error, locked, released>>
                  ELSE /\ ReleaseLock
                       /\ Throw("callback")
                       /\ UNCHANGED parser
    /\ UNCHANGED <<hasOnStatusCode, resp, acquired, stream>>

\* Mutant of ReadDone: at the end of the stream the line the parser still
\* buffers is delivered as a message.
ReadDoneFlush ==
    /\ pc = "read"
    /\ pos = Len(resp.bytes)
    /\ stream' = "closed"
    /\ calls' = IF parser.buffer # <<>>
                THEN Append(calls, Call("onMessage", ValueOf(parser.buffer)))
                ELSE calls
    /\ ReleaseLock
    /\ Return
    /\ UNCHANGED <<hasOnStatusCode, resp, pos, acquired, parser, parsed>>

\* await reader.read() yields done: break; finally releaseLock; return.
ReadDone ==
    /\ pc = "read"
    /\ pos = Len(resp.bytes)
    /\ stream' = "closed"
    /\ ReleaseLock
    /\ Return
    /\ UNCHANGED <<hasOnStatusCode, resp, pos, acquired, parser, parsed, calls>>

\* Mutant of ReadReject: the loop is not inside try/finally, so a rejected
\* read leaves the lock held.
ReadRejectNoFinally ==
    /\ pc = "read"
    /\ stream' = "errored"
    /\ Throw("read")
    /\ UNCHANGED <<hasOnStatusCode, resp, pos, locked, acquired, released, parser,
                   parsed, calls>>

\* Mutant of ReadReject: a rejected read is caught and the loop reads again.
ReadRejectRetry ==
    /\ pc = "read"
    /\ stream' = "errored"
    /\ UNCHANGED <<pc, result, error, hasOnStatusCode, resp, pos, locked, acquired,
                   released, parser, parsed, calls>>

\* await reader.read() rejects: finally releaseLock; the error propagates.
ReadReject ==
    /\ pc = "read"
    /\ stream' = "errored"
    /\ ReleaseLock
    /\ Throw("read")
    /\ UNCHANGED <<hasOnStatusCode, resp, pos, acquired, parser, parsed, calls>>

Next ==
    \/ FetchReject
    \/ FetchResolve
    \/ JsonResolve
    \/ JsonReject
    \/ ReadChunk
    \/ ReadDone
    \/ ReadReject

\* ====================================================== WordBookViewer
\* The component of lines 36-247: the selection state, the four lists and
\* the list fetches in flight.  An action is one event handler together
\* with the effects its state change triggers (React batches the setters of
\* a handler and runs the effects of the render before the next event), or
\* the completion of one fetch.  No effect has a cleanup: a fetch is never
\* cancelled and its completion sets the list whatever is selected by then.

\* The most list fetches in flight at once.
MaxPending == 2

Null == "null"

\* The repository: directories of languages, categories and vocabulary
\* types, and one .csv file in each type directory.
Langs == {"en", "zh"}
Cats == {"exam"}
Types == {"basic", "advanced"}

\* A WordBook as fetchWordBooks builds it: the path of the item, and the
\* language, category and type of the closure that fetched it.
WordBook(path, l, c, t) == [path |-> path, language |-> l, category |-> c, type |-> t]
NoBook == WordBook(<<>>, Null, Null, Null)

Request(kind, l, c, t) == [kind |-> kind, language |-> l, category |-> c, type |-> t]

VARIABLES
    activeTab,        \* useState('language')
    languages,        \* the options of the language Select
    selectedLanguage,
    categories,
    category,
    fileTypes,
    fileType,
    wordBooks,
    selectedWordBook,
    loading,          \* a download is running
    shown,            \* the store's showWordBookManager: the component is mounted
    pending           \* the list fetches in flight, each with its closure's values

viewerVars == <<activeTab, languages, selectedLanguage, categories, category,
                fileTypes, fileType, wordBooks, selectedWordBook, loading,
                shown, pending>>

\* After the first render: nothing selected, fetchLanguages in flight.
ViewerInit ==
    /\ activeTab = "language"
    /\ languages = {}
    /\ selectedLanguage = Null
    /\ categories = {}
    /\ category = Null
    /\ fileTypes = {}
    /\ fileType = Null
    /\ wordBooks = {}
    /\ selectedWordBook = NoBook
    /\ loading = FALSE
    /\ shown = TRUE
    /\ pending = {Request("languages", Null, Null, Null)}

\* The tabs the render shows for a selection (lines 167, 183, 200, 216).
RenderedTabs(l, c, t) ==
    {"language"}
    \cup (IF l # Null THEN {"category"} ELSE {})
    \cup (IF l # Null /\ c # Null THEN {"fileType"} ELSE {})
    \cup (IF l # Null /\ c # Null /\ t # Null THEN {"wordbook"} ELSE {})

\* The Select of a tab takes input when that tab is rendered and active.
TabOpen(tab) ==
    /\ shown
    /\ activeTab = tab
    /\ tab \in RenderedTabs(selectedLanguage, category, fileType)

\* The fetches the effects of lines 68-134 start when the selection becomes
\* (l, c, t): an effect runs when one of its dependencies changed, and
\* fetches when all of them are set.
Effects(l, c, t) ==
    (IF l # selectedLanguage /\ l # Null
     THEN {Request("categories", l, Null, Null)} ELSE {})
    \cup (IF <<l, c>> # <<selectedLanguage, category>> /\ l # Null /\ c # Null
          THEN {Request("fileTypes", l, c, Null)} ELSE {})
    \cup (IF <<l, c, t>> # <<selectedLanguage, category, fileType>>
             /\ l # Null /\ c # Null /\ t # Null
          THEN {Request("wordBooks", l, c, t)} ELSE {})

\* The selection becomes (l, c, t) and the effects run.
Select(l, c, t) ==
    /\ selectedLanguage' = l
    /\ category' = c
    /\ fileType' = t
    /\ pending' = pending \cup Effects(l, c, t)
    /\ Cardinality(pending') <= MaxPending

\* Tabs onChange (line 166): the user clicks the title of a rendered tab.
TabChange ==
    /\ shown
    /\ \E key \in RenderedTabs(selectedLanguage, category, fileType) :
        activeTab' = key
    /\ UNCHANGED <<languages, selectedLanguage, categories, category, fileTypes,
                   fileType, wordBooks, selectedWordBook, loading, shown, pending>>

\* Mutant of OnLanguageChange: the category is not reset.
OnLanguageChangeKeepsCategory(selectedLang) ==
    /\ Select(selectedLang, category, Null)
    /\ selectedWordBook' = NoBook
    /\ activeTab' = IF selectedLang # Null THEN "category" ELSE activeTab

\* The language Select's onChange (lines 170-178); Null is the cleared Select.
OnLanguageChange(selectedLang) ==
    /\ Select(selectedLang, Null, Null)
    /\ selectedWordBook' = NoBook
    /\ activeTab' = IF selectedLang # Null THEN "category" ELSE activeTab

\* The category Select's onChange (lines 187-194).
OnCategoryChange(selectedCat) ==
    /\ Select(selectedLanguage, selectedCat, Null)
    /\ selectedWordBook' = NoBook
    /\ activeTab' = IF selectedCat # Null THEN "fileType" ELSE activeTab

\* The vocabulary type Select's onChange (lines 204-210).
OnFileTypeChange(selectedType) ==
    /\ Select(selectedLanguage, category, selectedType)
    /\ selectedWordBook' = NoBook
    /\ activeTab' = IF selectedType # Null THEN "wordbook" ELSE activeTab

\* The word book Select's onChange (lines 222-226): wordBooks.find by path.
OnWordBookChange(id) ==
    selectedWordBook' =
        IF \E book \in wordBooks : book.path = id
        THEN CHOOSE book \in wordBooks : book.path = id
        ELSE NoBook

SelectLanguage ==
    /\ TabOpen("language")
    /\ \E option \in languages \cup {Null} : OnLanguageChange(option)
    /\ UNCHANGED <<languages, categories, fileTypes, wordBooks, loading, shown>>

SelectCategory ==
    /\ TabOpen("category")
    /\ \E option \in categories \cup {Null} : OnCategoryChange(option)
    /\ UNCHANGED <<languages, categories, fileTypes, wordBooks, loading, shown>>

SelectFileType ==
    /\ TabOpen("fileType")
    /\ \E option \in fileTypes \cup {Null} : OnFileTypeChange(option)
    /\ UNCHANGED <<languages, categories, fileTypes, wordBooks, loading, shown>>

SelectWordBook ==
    /\ TabOpen("wordbook")
    /\ \E id \in {book.path : book \in wordBooks} \cup {<<>>} : OnWordBookChange(id)
    /\ UNCHANGED <<activeTab, languages, selectedLanguage, categories, category,
                   fileTypes, fileType, wordBooks, loading, shown, pending>>

\* A list fetch completes and sets its list (lines 57-60, 76-79, 96-99,
\* 116-127); the word books carry the selection of the closure.
FetchDone ==
    /\ \E req \in pending :
        /\ pending' = pending \ {req}
        /\ languages' = IF shown /\ req.kind = "languages" THEN Langs ELSE languages
        /\ categories' = IF shown /\ req.kind = "categories" THEN Cats ELSE categories
        /\ fileTypes' = IF shown /\ req.kind = "fileTypes" THEN Types ELSE fileTypes
        /\ wordBooks' =
            IF shown /\ req.kind = "wordBooks"
            THEN {WordBook(<<req.language, req.category, req.type>>,
                           req.language, req.category, req.type)}
            ELSE wordBooks
    /\ UNCHANGED <<activeTab, selectedLanguage, category, fileType,
                   selectedWordBook, loading, shown>>

\* A list fetch fails: the catch logs it and no list changes.
FetchFail ==
    /\ \E req \in pending : pending' = pending \ {req}
    /\ UNCHANGED <<activeTab, languages, selectedLanguage, categories, category,
                   fileTypes, fileType, wordBooks, selectedWordBook, loading, shown>>

\* The Download button (lines 235-239) calls handleDownload (lines 136-143).
Download ==
    /\ TabOpen("wordbook")
    /\ selectedWordBook # NoBook
    /\ ~loading
    /\ loading' = TRUE
    /\ UNCHANGED <<activeTab, languages, selectedLanguage, categories, category,
                   fileTypes, fileType, wordBooks, selectedWordBook, shown, pending>>

\* The download succeeds: the file is added and the manager is closed
\* (lines 143-152, 157).
DownloadDone ==
    /\ shown
    /\ loading
    /\ loading' = FALSE
    /\ shown' = FALSE
    /\ UNCHANGED <<activeTab, languages, selectedLanguage, categories, category,
                   fileTypes, fileType, wordBooks, selectedWordBook, pending>>

\* The download fails (lines 153-158).
DownloadFail ==
    /\ shown
    /\ loading
    /\ loading' = FALSE
    /\ UNCHANGED <<activeTab, languages, selectedLanguage, categories, category,
                   fileTypes, fileType, wordBooks, selectedWordBook, shown, pending>>

ViewerNext ==
    \/ TabChange
    \/ SelectLanguage
    \/ SelectCategory
    \/ SelectFileType
    \/ SelectWordBook
    \/ FetchDone
    \/ FetchFail
    \/ Download
    \/ DownloadDone
    \/ DownloadFail

\* ------------------------------------------------------ specifications
allVars == <<vars, viewerVars>>

\* One invocation of fetchSSE; the viewer does not take part.
SpecInit == Init /\ ViewerInit

SpecNext ==
    \/ FetchReject /\ UNCHANGED viewerVars
    \/ FetchResolve /\ UNCHANGED viewerVars
    \/ JsonResolve /\ UNCHANGED viewerVars
    \/ JsonReject /\ UNCHANGED viewerVars
    \/ ReadChunk /\ UNCHANGED viewerVars
    \/ ReadDone /\ UNCHANGED viewerVars
    \/ ReadReject /\ UNCHANGED viewerVars

Spec == SpecInit /\ [][SpecNext]_allVars

\* The viewer; no fetchSSE invocation takes part.
ViewerSpecInit == ViewerInit /\ Init /\ ~hasOnStatusCode

ViewerSpecNext ==
    \/ TabChange /\ UNCHANGED vars
    \/ SelectLanguage /\ UNCHANGED vars
    \/ SelectCategory /\ UNCHANGED vars
    \/ SelectFileType /\ UNCHANGED vars
    \/ SelectWordBook /\ UNCHANGED vars
    \/ FetchDone /\ UNCHANGED vars
    \/ FetchFail /\ UNCHANGED vars
    \/ Download /\ UNCHANGED vars
    \/ DownloadDone /\ UNCHANGED vars
    \/ DownloadFail /\ UNCHANGED vars

ViewerSpec == ViewerSpecInit /\ [][ViewerSpecNext]_allVars

\* ------------------------------------------------------------- history
IsMessage(c) == c.cb = "onMessage"
IsError(c) == c.cb = "onError"
IsStatus(c) == c.cb = "onStatusCode"

Msgs == SelectSeq(calls, IsMessage)
Errs == SelectSeq(calls, IsError)
StatusCalls == SelectSeq(calls, IsStatus)

\* The data of the onMessage calls, in order.
MsgData == [i \in 1..Len(Msgs) |-> Msgs[i].arg]

IsEventItem(it) == it.type = "event"

\* The data of the items of type 'event' among items, in order.
EventData(items) ==
    LET ev == SelectSeq(items, IsEventItem) IN [i \in 1..Len(ev) |-> ev[i].data]

ItemTypes(items) == [i \in 1..Len(items) |-> items[i].type]

\* What the decoder completes when the bytes arrive as one chunk.
OneChunkItems(bytes) == Feed(NewParser, TextDecode(bytes)).items

HasResponse == resp.status # 0
Ended == pc = "end"

\* ------------------------------------------------------------------ C1
\* C1 as stated: every invocation that got a response ends with exactly one
\* of (a) no onError call and the stream completed, (b) exactly one onError
\* call; and never with both a message and an error.
C1_ExactlyOneOutcome ==
    (Ended /\ HasResponse) =>
        /\ (Len(Errs) = 0 /\ stream = "closed") # (Len(Errs) = 1)
        /\ ~(Msgs # <<>> /\ Errs # <<>>)

\* C1 amended: at every moment of an invocation there is at most one
\* onError call, never both a message and an error, and never an error
\* together with completion of the stream; an invocation that returns
\* normally has exactly one of (a) and (b); an invocation that ends in a
\* propagated failure has neither: no onError call and no completion.
C1_AtMostOneOutcome ==
    /\ Len(Errs) <= 1
    /\ ~(Msgs # <<>> /\ Errs # <<>>)
    /\ stream = "closed" => Errs = <<>>
    /\ result = "fulfilled" => (Len(Errs) = 0 /\ stream = "closed") # (Len(Errs) = 1)
    /\ result = "rejected" => (Errs = <<>> /\ stream # "closed")

C1_Witness ==
    /\ result = "fulfilled"
    /\ stream = "closed"
    /\ Len(Msgs) >= 2

\* ------------------------------------------------------------------ C2
\* C2 as stated: an invocation given an onStatusCode callback has called it
\* exactly once when it ends, first of all calls, with the response status.
C2_StatusExactlyOnce ==
    (Ended /\ hasOnStatusCode) =>
        /\ Len(StatusCalls) = 1
        /\ IsStatus(calls[1])
        /\ calls[1].arg = resp.status

\* C2 amended: when an onStatusCode callback is supplied and the transport
\* call yields a response, onStatusCode is called exactly once, with the
\* status of the response, before any onMessage or onError call, for
\* success and non-success statuses alike; when the transport call fails or
\* no callback is supplied it is not called.
C2_StatusOncePerResponse ==
    /\ (hasOnStatusCode /\ HasResponse) =>
            /\ Len(StatusCalls) = 1
            /\ IsStatus(calls[1])
            /\ calls[1].arg = resp.status
    /\ (~hasOnStatusCode \/ ~HasResponse) => StatusCalls = <<>>

C2_Witness ==
    /\ Len(calls) >= 2
    /\ IsStatus(calls[1])
    /\ IsMessage(calls[2])
    /\ resp.status = StatusOK

\* ------------------------------------------------------------------ C3
\* C3: a response whose status is not 200 and whose body parses: no
\* onMessage call, no reader taken and no byte read from the stream at any
\* moment; once the parse has resolved, exactly one onError call, with the
\* parsed body, and the invocation has returned.
C3_ErrorStatusShortCircuit ==
    (HasResponse /\ resp.status # StatusOK /\ JsonParse(resp.bytes).ok) =>
        /\ Msgs = <<>>
        /\ acquired = 0
        /\ ~locked
        /\ pos = 0
        /\ stream = "readable"
        /\ pc \in {"json", "end"}
        /\ pc = "json" => (Errs = <<>> /\ result = "pending")
        /\ pc = "end" =>
            /\ result = "fulfilled"
            /\ Len(Errs) = 1
            /\ Errs[1].arg = JsonParse(resp.bytes).value

C3_Witness ==
    /\ Ended
    /\ resp.status = 429
    /\ resp.body.kind = "json"
    /\ resp.body.doc = 2
    /\ Len(Errs) = 1

\* ------------------------------------------------------------------ C4
\* C4 as stated: an invocation that read a well-formed event stream to its
\* end has made the onMessage calls of the same bytes arriving as one chunk,
\* however the bytes were split.
C4_ChunkingInvariance ==
    (result = "fulfilled" /\ resp.status = StatusOK /\ resp.body.kind = "stream"
        /\ \A i \in 1..Len(resp.body.blocks) : resp.body.blocks[i] # "partial") =>
        MsgData = EventData(OneChunkItems(resp.bytes))

\* ------------------------------------------------------------------ C5
\* The geometry of block j of a stream body: the offset it starts at, the
\* offset its payload starts at, the offset it ends at.
DataKinds == {"ascii", "multi"}
BlockStart(blocks, j) == Len(BlocksBytes(SubSeq(blocks, 1, j - 1)))
PayloadStart(blocks, j) == BlockStart(blocks, j) + Len(FieldData) + 2
BlockEnd(blocks, j) == BlockStart(blocks, j) + Len(BlockBytes(blocks[j]))
EventsBefore(blocks, j) == Cardinality({i \in 1..(j - 1) : blocks[i] \in DataKinds})
EventsEndedBy(blocks, p) ==
    Cardinality({i \in 1..Len(blocks) : blocks[i] \in DataKinds /\ BlockEnd(blocks, i) <= p})

\* A read that follows a chunk which ended inside the payload of event j
\* and that carries the rest of the event, blank line included.
SplitPayloadStep(j) ==
    /\ pc = "read"
    /\ resp.body.kind = "stream"
    /\ j \in 1..Len(resp.body.blocks)
    /\ resp.body.blocks[j] \in DataKinds
    /\ pos > PayloadStart(resp.body.blocks, j)
    /\ pos < PayloadStart(resp.body.blocks, j) + Len(PayloadBytes(resp.body.blocks[j]))
    /\ pos' >= BlockEnd(resp.body.blocks, j)

\* C5 as stated: when the payload of an event is split across two
\* consecutive chunks, no onMessage call for it has been made after the
\* first chunk, and the second chunk makes exactly one, carrying the whole
\* payload.
C5_SplitPayloadDeliveredOnce ==
    [][\A j \in 1..(MaxBlocks + 1) :
        SplitPayloadStep(j) =>
            LET k == EventsBefore(resp.body.blocks, j) + 1 IN
            /\ Len(Msgs) = k - 1
            /\ Len(Msgs') >= k
            /\ Len(Msgs') <= EventsEndedBy(resp.body.blocks, pos')
            /\ Msgs'[k].arg = TextDecode(PayloadBytes(resp.body.blocks[j]))]_vars

\* ------------------------------------------------------------------ C6
\* C6: the reader is taken at most once; the lock is held exactly while the
\* invocation is suspended in the read loop; when the invocation has ended,
\* by return or by a propagated failure, every acquisition has been
\* released exactly once.
C6_LockReleased ==
    /\ acquired <= 1
    /\ released <= acquired
    /\ locked <=> (acquired = released + 1)
    /\ locked <=> (pc = "read")
    /\ Ended => (~locked /\ released = acquired)

C6_Witness ==
    /\ Ended
    /\ error = "callback"
    /\ acquired = 1
    /\ released = 1

\* ------------------------------------------------------------------ C7
\* C7: the onMessage calls are, in order, the data of the items of type
\* 'event' the decoder completed, one call per item; items of another type
\* are not forwarded; and while no callback has thrown the decoder has
\* completed one item per item of the bytes read so far, in stream order.
C7_MessagesAreEventsInOrder ==
    resp.status = StatusOK =>
        /\ MsgData = EventData(parsed)
        /\ Len(calls) = Len(StatusCalls) + Len(SelectSeq(parsed, IsEventItem))
        /\ error # "callback" =>
                ItemTypes(parsed) = ItemTypes(OneChunkItems(SubSeq(resp.bytes, 1, pos)))

C7_Witness ==
    /\ resp.status = StatusOK
    /\ \E i \in 1..Len(parsed) : parsed[i].type = "reconnect-interval"
    /\ Len(Msgs) >= 1
    /\ result = "fulfilled"

\* ------------------------------------------------------------------ C8
\* A body in which no event is complete: no data block (comments, retry
\* lines, a last line never ended), or a json document, or nothing at all.
NoCompleteEvent(body) ==
    \A i \in 1..Len(body.blocks) : body.blocks[i] \notin DataKinds

\* C8: a status-200 response whose body stream holds no complete event and
\* whose reads do not fail: no onMessage and no onError call at any moment,
\* and the invocation ends only by returning, after the stream completed.
C8_EmptyStreamReturns ==
    (resp.status = StatusOK /\ NoCompleteEvent(resp.body) /\ stream # "errored") =>
        /\ Msgs = <<>>
        /\ Errs = <<>>
        /\ error = "none"
        /\ Ended => (result = "fulfilled" /\ stream = "closed")

C8_Witness ==
    /\ Ended
    /\ resp.status = StatusOK
    /\ resp.body.kind = "stream"
    /\ resp.bytes = <<>>
    /\ result = "fulfilled"

\* ------------------------------------------------------------------ C9
\* C9: an invocation that left the transport call without a response has
\* ended rejected with the transport failure, having made no callback call
\* and taken no reader.
C9_TransportFailurePropagates ==
    (pc # "fetch" /\ ~HasResponse) =>
        /\ Ended
        /\ result = "rejected"
        /\ error = "transport"
        /\ calls = <<>>
        /\ acquired = 0
        /\ pos = 0

C9_Witness ==
    /\ Ended
    /\ error = "transport"
    /\ hasOnStatusCode

\* ----------------------------------------------------------------- C10
\* C10: once a read has rejected or the decoder has thrown, the invocation
\* has ended rejected with that failure: it is not suspended at another
\* read, no onError call was made, and the onMessage calls are no more than
\* the events of the bytes read, one call per event.
C10_MidStreamFailurePropagates ==
    (stream = "errored" \/ error = "callback") =>
        /\ Ended
        /\ result = "rejected"
        /\ error \in {"read", "callback"}
        /\ Errs = <<>>
        /\ MsgData = EventData(parsed)
        /\ LET events == SelectSeq(OneChunkItems(SubSeq(resp.bytes, 1, pos)), IsEventItem)
           IN /\ Len(Msgs) <= Len(events)
              /\ stream = "errored" => Len(Msgs) = Len(events)

C10_Witness ==
    /\ stream = "errored"
    /\ Len(Msgs) >= 1
    /\ pos < Len(resp.bytes)

\* ----------------------------------------------------------------- C11
\* C11 as stated: whenever a word book is selected, its language, category
\* and type are the selected language, category and file type.
C11_SelectedBookMatchesSelection ==
    selectedWordBook # NoBook =>
        /\ selectedWordBook.language = selectedLanguage
        /\ selectedWordBook.category = category
        /\ selectedWordBook.type = fileType

\* ----------------------------------------------------------------- C12
\* C12: a category is selected only under a selected language, a file type
\* only under a selected category, a word book only under a selected file
\* type, and the active tab is one of the tabs the selection renders.
C12_SelectionHierarchy ==
    /\ category # Null => selectedLanguage # Null
    /\ fileType # Null => category # Null
    /\ selectedWordBook # NoBook => fileType # Null
    /\ activeTab \in RenderedTabs(selectedLanguage, category, fileType)

\* A language was chosen after a whole selection had been made: the lists
\* of the earlier selection are still there, the levels below are reset.
C12_Witness ==
    /\ selectedLanguage # Null
    /\ category = Null
    /\ fileType = Null
    /\ selectedWordBook = NoBook
    /\ wordBooks # {}
    /\ activeTab = "category"

====
